---- MODULE Spec2Model ----
(***************************************************************************)
(* Model of d3rlpy/logging/wandb_adapter.py: LoggerWanDBAdapter, a logger  *)
(* adapter that forwards hyperparameters, metrics and checkpoints to a     *)
(* Weights & Biases run, and WanDBAdapterFactory, which creates one        *)
(* adapter per experiment name.                                            *)
(*                                                                         *)
(* The tracking client (wandb) and the save-capable object (algo) are the  *)
(* environment.  Every handler is an operator that, given the receiver and *)
(* the arguments and the environment's answer to the call it makes,        *)
(* returns the external calls it issues (in order), the outcome seen by    *)
(* its caller ("None" for a normal return, otherwise the exception) and    *)
(* the receiver after the call.                                            *)
(***************************************************************************)
EXTENDS Integers, Sequences, FiniteSets, TLC

VARIABLES
    available,   \* whether "import wandb" succeeds in this process
    factory,     \* factory id -> WanDBAdapterFactory object
    adapters,    \* sequence of the LoggerWanDBAdapter objects constructed
    runs,        \* tracking service: run handle -> state of that run
    algo_saved,  \* the paths the save-capable object has written
    ghost,       \* per adapter: who made it, with which name, calls so far
    last,        \* the operation executed by the last step
    ext,         \* the external calls issued by the last step, in order
    nops         \* number of operations executed

vars == <<available, factory, adapters, runs, algo_saved, ghost, last, ext, nops>>

(***************************************************************************)
(* Bounds of the exploration                                               *)
(***************************************************************************)
MaxAdapters == 2
MaxOps == 3

(***************************************************************************)
(* Input domains                                                           *)
(***************************************************************************)
NoneStr == [some |-> FALSE, val |-> ""]
NonePath == [some |-> FALSE, val |-> <<>>]
SomeStr(s) == [some |-> TRUE, val |-> s]
SomePath(p) == [some |-> TRUE, val |-> p]

Factories == {"fa", "fb"}
Projects == {NoneStr, SomeStr("proj")}
ModelDirs == {NonePath, SomePath(<<"/", "out">>)}
ExperimentNames == {"run-a", "run-b"}
Epochs == {3, 12}
Steps == {100}
MetricNames == {"loss", "epoch"}
MetricValues == {5}
ParamKeys == {"lr", "gamma"}
ParamValues == {1, 2}
RemoteErrors == {"ConnectionError"}
Responses == {"ok"} \cup RemoteErrors

\* every dict of str -> value over the parameter keys
ParamDicts == UNION {[D -> ParamValues] : D \in SUBSET ParamKeys}

EmptyDict == [k \in {} |-> 0]

(***************************************************************************)
(* Python primitives used by the handlers                                  *)
(***************************************************************************)
\* a dict display {k1: v1, k2: v2}: entries are inserted left to right, a
\* later entry with an equal key replaces the earlier value
RECURSIVE DictLiteral(_)
DictLiteral(pairs) ==
    IF pairs = <<>> THEN EmptyDict
    ELSE LET n == Len(pairs)
             d == DictLiteral(SubSeq(pairs, 1, n - 1))
             k == pairs[n][1]
         IN [x \in (DOMAIN d) \cup {k} |-> IF x = k THEN pairs[n][2] ELSE d[x]]

\* dict.update(other)
DictUpdate(d, other) ==
    [k \in (DOMAIN d) \cup (DOMAIN other) |->
        IF k \in DOMAIN other THEN other[k] ELSE d[k]]

DigitChar(d) ==
    CASE d = 0 -> "0" [] d = 1 -> "1" [] d = 2 -> "2" [] d = 3 -> "3"
      [] d = 4 -> "4" [] d = 5 -> "5" [] d = 6 -> "6" [] d = 7 -> "7"
      [] d = 8 -> "8" [] d = 9 -> "9"

\* str(n) for an int, as used by the replacement field of an f-string
RECURSIVE IntToStr(_)
IntToStr(n) ==
    IF n < 0 THEN "-" \o IntToStr(0 - n)
    ELSE IF n < 10 THEN DigitChar(n)
    ELSE IntToStr(n \div 10) \o DigitChar(n % 10)

\* pathlib: Path / "name" for a relative single component
PathJoin(p, name) == Append(p, name)

(***************************************************************************)
(* The tracking service (environment)                                      *)
(***************************************************************************)
\* run.dir of the run with handle h
RunDir(h) == <<"wandb", "run-" \o IntToStr(h), "files">>

NewRun(h, project, name) ==
    [project |-> project, name |-> name, dir |-> RunDir(h),
     config |-> EmptyDict, logs |-> <<>>,
     received |-> 0, finishCalls |-> 0, finished |-> FALSE]

\* the handle wandb.init returns next: one fresh run per call
NextHandle(rs) == Len(rs) + 1

\* effect of one external call on the service; a call that raises has been
\* received by the run but has no effect on it
ApplyCall(rs, c) ==
    CASE c.fn = "init" ->
            IF c.raised = "ok" THEN Append(rs, NewRun(Len(rs) + 1, c.project, c.name))
            ELSE rs
      [] c.fn = "config.update" ->
            [rs EXCEPT ![c.run] =
                [@ EXCEPT !.received = @ + 1,
                          !.config = IF c.raised = "ok"
                                     THEN DictUpdate(@, c.arg) ELSE @]]
      [] c.fn = "log" ->
            [rs EXCEPT ![c.run] =
                [@ EXCEPT !.received = @ + 1,
                          !.logs = IF c.raised = "ok"
                                   THEN Append(@, [payload |-> c.arg, step |-> c.step])
                                   ELSE @]]
      [] c.fn = "finish" ->
            [rs EXCEPT ![c.run] =
                [@ EXCEPT !.received = @ + 1,
                          !.finishCalls = @ + 1,
                          !.finished = IF c.raised = "ok" THEN TRUE ELSE @]]
      [] OTHER -> rs

RECURSIVE ApplyCalls(_, _)
ApplyCalls(rs, cs) ==
    IF cs = <<>> THEN rs ELSE ApplyCalls(ApplyCall(rs, Head(cs)), Tail(cs))

\* effect of the calls on the save-capable object
RECURSIVE SavedBy(_)
SavedBy(cs) ==
    IF cs = <<>> THEN {}
    ELSE (IF Head(cs).fn = "save" /\ Head(cs).raised = "ok"
          THEN {Head(cs).path} ELSE {}) \cup SavedBy(Tail(cs))

\* what the caller sees after one external call answered with resp
Propagate(resp) == IF resp = "ok" THEN "None" ELSE resp

(***************************************************************************)
(* LoggerWanDBAdapter                                                      *)
(***************************************************************************)
NoAdapter == [run |-> 0, model_dir |-> NonePath]

\* variant: the import failure is swallowed and construction goes on
adapter_init_noguard(avail, project, model_dir, experiment_name, resp, handle) ==
    [calls |-> <<[fn |-> "init", project |-> project,
                  name |-> experiment_name, raised |-> resp]>>,
     outcome |-> Propagate(resp),
     created |-> (resp = "ok"),
     self |-> IF resp = "ok"
              THEN [run |-> handle, model_dir |-> model_dir]
              ELSE NoAdapter]

\* variant: every adapter binds to the process-wide first run instead of the
\* run its own init call returned
adapter_init_shared(avail, project, model_dir, experiment_name, resp, handle) ==
    IF ~avail
    THEN [calls |-> <<>>, outcome |-> "ImportError: Please install wandb",
          created |-> FALSE, self |-> NoAdapter]
    ELSE [calls |-> <<[fn |-> "init", project |-> project,
                       name |-> experiment_name, raised |-> resp]>>,
          outcome |-> Propagate(resp),
          created |-> (resp = "ok"),
          self |-> IF resp = "ok"
                   THEN [run |-> 1, model_dir |-> model_dir]
                   ELSE NoAdapter]

\* __init__(project, model_dir, experiment_name); avail: "import wandb"
\* succeeds; handle: the run wandb.init returns when it answers "ok"
adapter_init(avail, project, model_dir, experiment_name, resp, handle) ==
    IF ~avail
    THEN [calls |-> <<>>, outcome |-> "ImportError: Please install wandb",
          created |-> FALSE, self |-> NoAdapter]
    ELSE [calls |-> <<[fn |-> "init", project |-> project,
                       name |-> experiment_name, raised |-> resp]>>,
          outcome |-> Propagate(resp),
          created |-> (resp = "ok"),
          self |-> IF resp = "ok"
                   THEN [run |-> handle, model_dir |-> model_dir]
                   ELSE NoAdapter]

\* variant: the learning rate is filtered out of the forwarded mapping
write_params_filtered(self, params, resp) ==
    [calls |-> <<[fn |-> "config.update", run |-> self.run,
                  arg |-> [k \in (DOMAIN params) \ {"lr"} |-> params[k]],
                  raised |-> resp]>>,
     outcome |-> Propagate(resp),
     self |-> self]

write_params(self, params, resp) ==
    [calls |-> <<[fn |-> "config.update", run |-> self.run,
                  arg |-> params, raised |-> resp]>>,
     outcome |-> Propagate(resp),
     self |-> self]

\* variant: a failed log call is caught, repeated once and not reported
write_metric_retry(self, epoch, step, name, value, resp) ==
    LET c == [fn |-> "log", run |-> self.run,
              arg |-> DictLiteral(<< <<name, value>>, <<"epoch", epoch>> >>),
              step |-> step, raised |-> resp]
    IN [calls |-> IF resp = "ok" THEN <<c>> ELSE <<c, [c EXCEPT !.raised = "ok"]>>,
        outcome |-> "None",
        self |-> self]

write_metric(self, epoch, step, name, value, resp) ==
    [calls |-> <<[fn |-> "log", run |-> self.run,
                  arg |-> DictLiteral(<< <<name, value>>, <<"epoch", epoch>> >>),
                  step |-> step, raised |-> resp]>>,
     outcome |-> Propagate(resp),
     self |-> self]

\* variant: the file name lacks the extension
save_model_noext(self, epoch, resp) ==
    IF self.model_dir.some
    THEN [calls |-> <<[fn |-> "save",
                       path |-> PathJoin(self.model_dir.val,
                                         "model_" \o IntToStr(epoch)),
                       raised |-> resp]>>,
          outcome |-> Propagate(resp),
          self |-> self]
    ELSE [calls |-> <<>>,
          outcome |-> "NameError: name 'wandb' is not defined",
          self |-> self]

\* the name wandb is bound only inside __init__ (a local import), so the
\* else branch fails on the lookup of the global name before any call
save_model(self, epoch, resp) ==
    IF self.model_dir.some
    THEN [calls |-> <<[fn |-> "save",
                       path |-> PathJoin(self.model_dir.val,
                                         "model_" \o IntToStr(epoch) \o ".d3"),
                       raised |-> resp]>>,
          outcome |-> Propagate(resp),
          self |-> self]
    ELSE [calls |-> <<>>,
          outcome |-> "NameError: name 'wandb' is not defined",
          self |-> self]

\* variant: finish is named but not called
close_nofinish(self, resp) ==
    [calls |-> <<>>, outcome |-> "None", self |-> self]

\* variant: close gives the run handle up
close_drop_handle(self, resp) ==
    [calls |-> <<[fn |-> "finish", run |-> self.run, raised |-> resp]>>,
     outcome |-> Propagate(resp),
     self |-> [self EXCEPT !.run = 0]]

close(self, resp) ==
    [calls |-> <<[fn |-> "finish", run |-> self.run, raised |-> resp]>>,
     outcome |-> Propagate(resp),
     self |-> self]

(***************************************************************************)
(* WanDBAdapterFactory                                                     *)
(***************************************************************************)
factory_init(project, model_dir) ==
    [_project |-> project, _model_dir |-> model_dir]

\* variant: the factory's model directory is not handed to the adapter
create_no_model_dir(fself, avail, experiment_name, resp, handle) ==
    adapter_init(avail, fself._project, NonePath, experiment_name,
                 resp, handle)

create(fself, avail, experiment_name, resp, handle) ==
    adapter_init(avail, fself._project, fself._model_dir, experiment_name,
                 resp, handle)

(***************************************************************************)
(* State machine                                                           *)
(***************************************************************************)
NoOp == [op |-> "none", adapter |-> 0, outcome |-> "None", resp |-> "ok",
         pre |-> NoAdapter, closedBefore |-> FALSE, args |-> <<>>]

Init ==
    /\ available \in BOOLEAN
    /\ \E p \in Projects, d \in ModelDirs :
          factory = [f \in Factories |->
                        IF f = "fa" THEN factory_init(p, d)
                        ELSE factory_init(NoneStr, NonePath)]
    /\ adapters = <<>>
    /\ runs = <<>>
    /\ algo_saved = {}
    /\ ghost = <<>>
    /\ last = NoOp
    /\ ext = <<>>
    /\ nops = 0

Existing == 1..Len(adapters)

\* bookkeeping shared by the constructor steps
Constructed(r, by, project, model_dir, name, resp) ==
    /\ runs' = ApplyCalls(runs, r.calls)
    /\ adapters' = IF r.created THEN Append(adapters, r.self) ELSE adapters
    /\ ghost' = IF r.created
                THEN Append(ghost, [by |-> by, project |-> project,
                                    model_dir |-> model_dir, name |-> name,
                                    closeCalls |-> 0, params |-> EmptyDict])
                ELSE ghost
    /\ last' = [op |-> "init", adapter |-> IF r.created THEN Len(adapters) + 1 ELSE 0,
                outcome |-> r.outcome, resp |-> resp, pre |-> NoAdapter,
                closedBefore |-> FALSE,
                args |-> [by |-> by, name |-> name, runsBefore |-> Len(runs)]]
    /\ ext' = r.calls
    /\ nops' = nops + 1
    /\ UNCHANGED <<available, factory, algo_saved>>

\* factory.create(experiment_name)
Create(f, name, resp) ==
    /\ nops < MaxOps
    /\ Len(adapters) < MaxAdapters
    /\ LET r == create(factory[f], available, name, resp, NextHandle(runs))
       IN Constructed(r, f, factory[f]._project, factory[f]._model_dir, name, resp)

\* LoggerWanDBAdapter(project, model_dir, experiment_name) called directly
Construct(project, model_dir, name, resp) ==
    /\ nops < MaxOps
    /\ Len(adapters) < MaxAdapters
    /\ LET r == adapter_init(available, project, model_dir, name, resp,
                             NextHandle(runs))
       IN Constructed(r, "direct", project, model_dir, name, resp)

\* bookkeeping shared by the steps on an existing adapter
Operated(a, op, r, resp, args) ==
    /\ adapters' = [adapters EXCEPT ![a] = r.self]
    /\ runs' = ApplyCalls(runs, r.calls)
    /\ algo_saved' = algo_saved \cup SavedBy(r.calls)
    /\ last' = [op |-> op, adapter |-> a, outcome |-> r.outcome, resp |-> resp,
                pre |-> adapters[a], closedBefore |-> (ghost[a].closeCalls > 0),
                args |-> args]
    /\ ext' = r.calls
    /\ nops' = nops + 1
    /\ UNCHANGED <<available, factory>>

WriteParams(a, params, resp) ==
    /\ nops < MaxOps
    /\ a \in Existing
    /\ Operated(a, "write_params", write_params(adapters[a], params, resp), resp,
                [params |-> params])
    /\ ghost' = [ghost EXCEPT ![a].params =
                    IF resp = "ok"
                    THEN [k \in (DOMAIN @) \cup (DOMAIN params) |->
                             IF k \in DOMAIN params THEN params[k] ELSE @[k]]
                    ELSE @]

WriteMetric(a, epoch, step, name, value, resp) ==
    /\ nops < MaxOps
    /\ a \in Existing
    /\ Operated(a, "write_metric",
                write_metric(adapters[a], epoch, step, name, value, resp), resp,
                [epoch |-> epoch, step |-> step, name |-> name, value |-> value])
    /\ UNCHANGED ghost

SaveModel(a, epoch, resp) ==
    /\ nops < MaxOps
    /\ a \in Existing
    /\ Operated(a, "save_model", save_model(adapters[a], epoch, resp), resp,
                [epoch |-> epoch])
    /\ UNCHANGED ghost

Close(a, resp) ==
    /\ nops < MaxOps
    /\ a \in Existing
    /\ Operated(a, "close", close(adapters[a], resp), resp, <<>>)
    /\ ghost' = [ghost EXCEPT ![a].closeCalls = @ + 1]

Next ==
    \/ \E f \in Factories, n \in ExperimentNames, resp \in Responses :
          Create(f, n, resp)
    \/ \E p \in Projects, d \in ModelDirs, n \in ExperimentNames, resp \in Responses :
          Construct(p, d, n, resp)
    \/ \E a \in Existing, ps \in ParamDicts, resp \in Responses :
          WriteParams(a, ps, resp)
    \/ \E a \in Existing, e \in Epochs, s \in Steps, n \in MetricNames,
          v \in MetricValues, resp \in Responses :
          WriteMetric(a, e, s, n, v, resp)
    \/ \E a \in Existing, e \in Epochs, resp \in Responses :
          SaveModel(a, e, resp)
    \/ \E a \in Existing, resp \in Responses :
          Close(a, resp)

Spec == Init /\ [][Next]_vars

(***************************************************************************)
(* Properties                                                              *)
(***************************************************************************)
RunOps == {"write_params", "write_metric", "close"}

\* the calls of the last step that went to the run with handle h
CallsOn(h) == {i \in DOMAIN ext : ext[i].fn \in {"config.update", "log", "finish"}
                                  /\ ext[i].run = h}

\* C1: write_metric(epoch, step, name, value) issues exactly one log call on
\* the adapter's own run handle, at the given step, whose payload maps name
\* to value and "epoch" to epoch, for every name.
C1_MetricPayload ==
    last.op = "write_metric" =>
        /\ Len(ext) = 1
        /\ ext[1].fn = "log"
        /\ ext[1].run = last.pre.run
        /\ ext[1].step = last.args.step
        /\ last.args.name \in DOMAIN ext[1].arg
        /\ ext[1].arg[last.args.name] = last.args.value
        /\ "epoch" \in DOMAIN ext[1].arg
        /\ ext[1].arg["epoch"] = last.args.epoch

\* C2: with no model_dir, save_model(epoch, algo) invokes algo.save exactly
\* once with <default directory of the adapter's run>/model_<epoch>.d3 and
\* completes without an error when the save does.
C2_DefaultDirSave ==
    (last.op = "save_model" /\ ~last.pre.model_dir.some) =>
        /\ Len(ext) = 1
        /\ ext[1].fn = "save"
        /\ ext[1].path = Append(runs[last.pre.run].dir,
                                "model_" \o IntToStr(last.args.epoch) \o ".d3")
        /\ (last.resp = "ok" => last.outcome = "None")

\* C3: with a model_dir, save_model(epoch, algo) invokes algo.save exactly
\* once with model_dir/model_<epoch>.d3, and makes no call on the run handle
\* (in particular it does not ask for the default run directory).
C3_ModelDirSave ==
    (last.op = "save_model" /\ last.pre.model_dir.some) =>
        /\ Len(ext) = 1
        /\ ext[1].fn = "save"
        /\ Len(ext[1].path) = Len(last.pre.model_dir.val) + 1
        /\ SubSeq(ext[1].path, 1, Len(last.pre.model_dir.val)) = last.pre.model_dir.val
        /\ (last.args.epoch = 3 => ext[1].path = <<"/", "out", "model_3.d3">>)
        /\ (last.args.epoch = 12 => ext[1].path = <<"/", "out", "model_12.d3">>)
        /\ (last.resp = "ok" => ext[1].path \in algo_saved)
        /\ CallsOn(last.pre.run) = {}

C3_Witness ==
    /\ last.op = "save_model"
    /\ last.pre.model_dir.some
    /\ last.args.epoch = 12
    /\ <<"/", "out", "model_12.d3">> \in algo_saved

\* C4: every successful construction makes exactly one init call, which
\* starts one new run, and binds the new adapter to it; no two adapters hold
\* the same run handle; an operation on one adapter leaves the run of every
\* other adapter untouched.
C4_Step ==
    /\ (last'.op = "init" /\ available) =>
          /\ Len(ext') = 1
          /\ ext'[1].fn = "init"
          /\ last'.adapter # 0 =>
                /\ Len(runs') = Len(runs) + 1
                /\ Len(adapters') = Len(adapters) + 1
                /\ adapters'[last'.adapter].run = Len(runs')
    /\ \A a, b \in 1..Len(adapters') : a # b => adapters'[a].run # adapters'[b].run
    /\ \A b \in Existing :
          (last'.op \in RunOps \cup {"save_model"} /\ last'.adapter # b) =>
              runs'[adapters[b].run] = runs[adapters[b].run]

C4_IndependentRuns == [][C4_Step]_vars

C4_Witness ==
    /\ Len(adapters) = 2
    /\ ghost[1].by = "fa" /\ ghost[2].by = "fa"
    /\ last.op = "write_metric" /\ last.adapter = 2 /\ last.resp = "ok"
    /\ runs[adapters[1].run].received = 0
    /\ runs[adapters[2].run].received = 1

\* C5 (as stated): after close() has been called on an adapter, no later
\* operation of that adapter reaches its run handle.
C5_NoUseAfterClose ==
    (last.op \in RunOps \cup {"save_model"} /\ last.closedBefore) =>
        CallsOn(last.pre.run) = {}

\* C5 (amended): an adapter's run handle is a run of the service and is never
\* replaced; a finished run never becomes unfinished; the adapter keeps no
\* closed state: write_params, write_metric and close after a close() are
\* forwarded, one call each, to the same run handle.
C5_Step ==
    /\ \A a \in Existing : adapters'[a].run = adapters[a].run
    /\ \A a \in 1..Len(adapters') : adapters'[a].run \in 1..Len(runs')
    /\ \A h \in 1..Len(runs) : runs[h].finished => runs'[h].finished
    /\ (last'.op \in RunOps /\ last'.closedBefore) =>
          /\ Len(ext') = 1
          /\ ext'[1].run = adapters[last'.adapter].run
          /\ runs'[adapters[last'.adapter].run].received
                = runs[adapters[last'.adapter].run].received + 1

C5_HandleKeptAfterClose == [][C5_Step]_vars

C5_Witness ==
    /\ last.op = "write_metric"
    /\ last.closedBefore
    /\ runs[last.pre.run].finished
    /\ Len(runs[last.pre.run].logs) = 1

\* C6: each close() invokes finish on the adapter's own run handle exactly
\* once and returns None when finish returns; after n calls of close() the
\* run has received exactly n finish calls.
C6_FinishPerClose ==
    /\ \A a \in Existing : runs[adapters[a].run].finishCalls = ghost[a].closeCalls
    /\ last.op = "close" =>
          /\ Len(ext) = 1
          /\ ext[1].fn = "finish"
          /\ ext[1].run = last.pre.run
          /\ (last.resp = "ok" => last.outcome = "None")

C6_Witness ==
    /\ last.op = "close"
    /\ last.closedBefore
    /\ ghost[last.adapter].closeCalls = 2
    /\ runs[last.pre.run].finishCalls = 2

\* C7: when the tracking client is unavailable, construction (direct or
\* through the factory) fails with ImportError "Please install wandb", makes
\* no init call (neither a first nor a repeated one), starts no run and
\* yields no adapter.
C7_Unavailable ==
    ~available =>
        /\ runs = <<>>
        /\ adapters = <<>>
        /\ last.op = "init" =>
              /\ last.outcome = "ImportError: Please install wandb"
              /\ ext = <<>>
              /\ last.adapter = 0

C7_Witness ==
    /\ ~available
    /\ last.op = "init"
    /\ last.args.by = "fa"
    /\ nops = 2

\* C8: write_params(params) issues exactly one config update on the adapter's
\* run handle carrying exactly params and keeps nothing in the adapter; the
\* run configuration holds, for each key, the value of the last call that
\* supplied it (calls that raised apart).
C8_ParamsForwarded ==
    /\ last.op = "write_params" =>
          /\ Len(ext) = 1
          /\ ext[1].fn = "config.update"
          /\ ext[1].run = last.pre.run
          /\ ext[1].arg = last.args.params
          /\ adapters[last.adapter] = last.pre
    /\ \A a \in Existing : runs[adapters[a].run].config = ghost[a].params

C8_Witness ==
    /\ last.op = "write_params"
    /\ last.resp = "ok"
    /\ last.args.params = [k \in {"lr"} |-> 2]
    /\ runs[last.pre.run].config = [k \in {"lr", "gamma"} |-> IF k = "lr" THEN 2 ELSE 1]
    /\ runs[last.pre.run].received = 2

\* C9: no step changes a factory's project or model directory; every adapter
\* a factory created has the factory's model_dir and a run initialized with
\* the factory's project and the experiment name given to create; no step
\* changes the model_dir or the run handle of an existing adapter.
C9_Step ==
    /\ factory' = factory
    /\ \A a \in Existing : adapters'[a] = adapters[a]
    /\ \A a \in 1..Len(adapters') :
          ghost'[a].by \in Factories =>
              /\ adapters'[a].model_dir = factory'[ghost'[a].by]._model_dir
              /\ runs'[adapters'[a].run].project = factory'[ghost'[a].by]._project
              /\ runs'[adapters'[a].run].name = ghost'[a].name

C9_ConfigurationFixed == [][C9_Step]_vars

C9_Witness ==
    /\ Len(adapters) = 2
    /\ ghost[1].by = "fa" /\ ghost[1].name = "run-a"
    /\ ghost[2].by = "fb" /\ ghost[2].name = "run-b"
    /\ factory["fa"]._project.some /\ factory["fa"]._model_dir.some
    /\ runs[adapters[1].run].project = SomeStr("proj")
    /\ runs[adapters[1].run].name = "run-a"
    /\ last.op = "close" /\ last.adapter = 1

\* C10: when the service call of write_params, write_metric or close raises,
\* that call was made exactly once, the caller gets the same error, and the
\* adapter's run handle and model_dir are as before.
C10_RemoteErrorPropagates ==
    (last.op \in RunOps /\ last.resp # "ok") =>
        /\ Len(ext) = 1
        /\ ext[1].raised = last.resp
        /\ last.outcome = last.resp
        /\ adapters[last.adapter] = last.pre
        /\ Cardinality(CallsOn(last.pre.run)) = 1

C10_Witness ==
    /\ last.op = "write_metric"
    /\ last.resp = "ConnectionError"
    /\ last.outcome = "ConnectionError"
    /\ runs[last.pre.run].received = 1
    /\ runs[last.pre.run].logs = <<>>

====
